---- MODULE Spec2Model ----
(***************************************************************************)
(* Model of the Bullet webhook relay (CallMeMhz/bullet):                   *)
(*   app/models/routes.py  RouteMatcher, Route, RoutesConfig               *)
(*   app/channels/base.py  BaseChannel.send_safe                           *)
(*   app/channels/feishu.py FeishuChannel                                  *)
(*   app/router.py         load_routes_config, create_channel_from_config, *)
(*                         AlertRouter                                     *)
(*   app/sources/grafana.py GrafanaSource.parse                            *)
(*   app/main.py           lifespan, _process_webhook                      *)
(* One webhook request is in flight at a time; a request is split into     *)
(* steps at the points where the coroutine can suspend (the network call   *)
(* made by FeishuChannel.send) and once per iteration of the dispatch loop.*)
(***************************************************************************)
EXTENDS Integers, Sequences, FiniteSets, TLC

\* ---------------------------------------------------------------- bounds
\* Longest route list of a routes file.
MaxRoutes == 2
\* Most channel entries of a routes file, over all its routes.
MaxChannels == 2

\* ------------------------------------------------------- program constants
HTTP_200_OK == 200
HTTP_400_BAD_REQUEST == 400
HTTP_502_BAD_GATEWAY == 502
HTTP_503_SERVICE_UNAVAILABLE == 503

\* ---------------------------------------------------------------- values
\* An empty dict.
EmptyMap == [k \in {} |-> ""]

\* dict.get(key) with its default None, as a pair <<present, value>>.
DictGet(d, key) == IF key \in DOMAIN d THEN <<TRUE, d[key]>> ELSE <<FALSE, "">>

\* d[key] = value on a dict (a later assignment to the same key overwrites).
DictSet(d, key, value) == (key :> value) @@ d

Env(v) == [k \in {"env"} |-> v]
EnvTeam(v, t) == [k \in {"env", "team"} |-> IF k = "env" THEN v ELSE t]

\* ------------------------------------------------- app/models/routes.py

\* RouteMatcher.matches: the source test, then the loop over the matcher's
\* labels with its early return; `todo` is the set of the matcher's keys the
\* loop has not visited yet.
RECURSIVE LabelsLoop(_, _, _)
LabelsLoop(mlabels, labels, todo) ==
  IF todo = {} THEN TRUE
  ELSE LET key == CHOOSE k \in todo : TRUE
           got == DictGet(labels, key)
       IN IF ~got[1] \/ got[2] # mlabels[key]
            THEN FALSE
            ELSE LabelsLoop(mlabels, labels, todo \ {key})

matches_no_source_test(m, source, labels) ==
  LabelsLoop(m.labels, labels, DOMAIN m.labels)

RouteMatcher_matches(m, source, labels) ==
  IF m.source # "" /\ m.source # source THEN FALSE
  ELSE LabelsLoop(m.labels, labels, DOMAIN m.labels)

\* Route.matches delegates to its matcher.
Route_matches(route, source, labels) ==
  RouteMatcher_matches(route.match, source, labels)

\* The channel configurations the schema accepts (ChannelConfig): a Feishu
\* entry with a destination, one without, and a Resend e-mail entry.
FeishuChannelConfigs ==
  { [type |-> "feishu", webhook_url |-> "https://hook", name |-> "ops"],
    [type |-> "feishu", webhook_url |-> "", name |-> "oncall"] }

ResendEmailChannelConfigs ==
  { [type |-> "resend_email", webhook_url |-> "", name |-> "mail"] }

ChannelConfig == FeishuChannelConfigs \cup ResendEmailChannelConfigs

RouteNames == {"", "route_1"}

\* A catch-all matcher and one for production alerts of Grafana.
Matchers ==
  { [source |-> "", labels |-> EmptyMap],
    [source |-> "grafana", labels |-> Env("prod")] }

\* The routes with k channel entries.
Route(k) == [name : RouteNames, match : Matchers,
             channels : [1..k -> ChannelConfig]]

\* The route lists of n routes with at most `budget` channel entries in all.
RECURSIVE RouteLists(_, _)
RouteLists(n, budget) ==
  IF n = 0 THEN {<<>>}
  ELSE UNION { {Append(rest, r) : rest \in RouteLists(n - 1, budget - k),
                                  r \in Route(k)} : k \in 0..budget }

RoutesConfig == UNION {RouteLists(n, MaxChannels) : n \in 0..MaxRoutes}

\* ----------------------------------------------- app/channels/feishu.py

\* FeishuChannel(webhook_url, secret): stores its parameters.  `id` is the
\* object's identity: the route index (from 0) and the position (from 1) of
\* the configuration entry it was constructed for.
FeishuChannel(webhook_url, id) ==
  [kind |-> "feishu", webhook_url |-> webhook_url, id |-> id]

\* FeishuChannel.name
Channel_name(ch) == "feishu"

\* FeishuChannel.enabled
Channel_enabled(ch) == ch.webhook_url # ""

\* What the remote end does with one POST.
NetOutcomes == {"code_0", "code_nonzero", "http_error", "network_error"}

\* FeishuChannel.send from the POST on: raise_for_status and the transport
\* raise; a body whose code is not 0 gives False; code 0 gives True.
Feishu_send(net) ==
  CASE net = "code_0" -> "true"
    [] net = "code_nonzero" -> "false"
    [] OTHER -> "raise"

\* ------------------------------------------------- app/channels/base.py

send_safe_propagates(sent) == sent

\* BaseChannel.send_safe once send has finished with `sent` ("true", "false"
\* or "raise"): the except clause turns a raise into False.
send_safe_result(sent) == IF sent = "raise" THEN "false" ELSE sent

\* --------------------------------------------------------- app/router.py

\* The routes file the process finds at start-up.
RoutesFiles ==
  { [kind |-> "missing", routes |-> <<>>],
    [kind |-> "malformed", routes |-> <<>>] }
  \cup { [kind |-> "valid", routes |-> r] : r \in RoutesConfig }

\* load_routes_config: FileNotFoundError for a missing file, a validation (or
\* YAML) error for a malformed one, else the validated RoutesConfig.
load_routes_config(f) ==
  CASE f.kind = "missing" -> [raised |-> "FileNotFoundError", routes |-> <<>>]
    [] f.kind = "malformed" -> [raised |-> "Exception", routes |-> <<>>]
    [] OTHER -> [raised |-> "", routes |-> f.routes]

\* create_channel_from_config: a FeishuChannel for type "feishu", ValueError
\* for anything else.
create_channel_from_config(config, id) ==
  IF config.type = "feishu"
    THEN [raised |-> FALSE, ch |-> FeishuChannel(config.webhook_url, id)]
    ELSE [raised |-> TRUE, ch |-> FeishuChannel("", id)]

\* f"route_{i}"
PositionalKey(i) ==
  CASE i = 0 -> "route_0" [] i = 1 -> "route_1" [] i = 2 -> "route_2"
    [] i = 3 -> "route_3" [] OTHER -> "route_N"

\* route.name or f"route_{i}", i counted from 0
RouteKey(route, i) == IF route.name # "" THEN route.name ELSE PositionalKey(i)

\* The list comprehension of AlertRouter.__init__ for the route at index i.
BuildChannels(configs, i) ==
  LET built == [j \in 1..Len(configs) |->
                  create_channel_from_config(configs[j], <<i, j>>)]
  IN [raised |-> \E j \in 1..Len(configs) : built[j].raised,
      channels |-> [j \in 1..Len(configs) |-> built[j].ch]]

\* The loop of AlertRouter.__init__ from index i (from 0) on; `acc` is
\* _route_channels so far.
RECURSIVE InitLoop(_, _, _)
InitLoop(routes, i, acc) ==
  IF i >= Len(routes) THEN [raised |-> FALSE, route_channels |-> acc]
  ELSE LET b == BuildChannels(routes[i + 1].channels, i)
       IN IF b.raised
            THEN [raised |-> TRUE, route_channels |-> EmptyMap]
            ELSE InitLoop(routes, i + 1,
                          DictSet(acc, RouteKey(routes[i + 1], i), b.channels))

NoRouter == [ok |-> FALSE, routes |-> <<>>, route_channels |-> EmptyMap]

\* AlertRouter(config); ok = FALSE when the constructor raised.
AlertRouter(routes) ==
  LET r == InitLoop(routes, 0, EmptyMap)
  IN IF r.raised THEN NoRouter
     ELSE [ok |-> TRUE, routes |-> routes, route_channels |-> r.route_channels]

\* The loop of AlertRouter.find_route from index i (from 0) on: the first
\* route that matches, with _route_channels.get(route_key, []).  route is
\* the position of the route in the list (from 1), 0 for None.
RECURSIVE FindLoop(_, _, _, _)
FindLoop(rt, source, labels, i) ==
  IF i >= Len(rt.routes) THEN [route |-> 0, channels |-> <<>>]
  ELSE IF Route_matches(rt.routes[i + 1], source, labels)
         THEN LET key == RouteKey(rt.routes[i + 1], i)
              IN [route |-> i + 1,
                  channels |-> IF key \in DOMAIN rt.route_channels
                                 THEN rt.route_channels[key] ELSE <<>>]
         ELSE FindLoop(rt, source, labels, i + 1)

find_route(rt, source, labels) == FindLoop(rt, source, labels, 0)

RecordResult_first_wins(res, ch, success) ==
  IF Channel_name(ch) \in DOMAIN res THEN res
  ELSE DictSet(res, Channel_name(ch), success)

\* results[channel.name] = success
RecordResult(res, ch, success) == DictSet(res, Channel_name(ch), success)

LoopNext_break_on_failure(chs, i, success) ==
  IF success THEN i + 1 ELSE Len(chs) + 1

\* `for channel in channels`: the position the loop visits after position i.
LoopNext(chs, i, success) == i + 1

\* ------------------------------------------------ app/sources/grafana.py

\* Webhook bodies: one the parser cannot read, and readable ones without
\* labels, with labels on the first alert only, and with commonLabels.
Payloads ==
  { [malformed |-> TRUE, commonLabels |-> EmptyMap, alerts |-> <<>>],
    [malformed |-> FALSE, commonLabels |-> EmptyMap, alerts |-> <<>>],
    [malformed |-> FALSE, commonLabels |-> EmptyMap,
     alerts |-> <<Env("staging")>>],
    [malformed |-> FALSE, commonLabels |-> EnvTeam("prod", "core"),
     alerts |-> <<Env("staging")>>] }

NoEvent == [source |-> "", labels |-> EmptyMap]

\* GrafanaSource.parse: the group's labels are commonLabels, or the first
\* alert's labels when commonLabels is empty and there is an alert.
GrafanaSource_parse(payload) ==
  IF payload.malformed THEN [raised |-> TRUE, event |-> NoEvent]
  ELSE [raised |-> FALSE,
        event |-> [source |-> "grafana",
                   labels |-> IF payload.commonLabels = EmptyMap
                                   /\ payload.alerts # <<>>
                                THEN payload.alerts[1]
                                ELSE payload.commonLabels]]

\* ----------------------------------------------------------- app/main.py

SourceNames == {"grafana", "kline"}

NoResponse ==
  [status |-> 0, exception |-> FALSE, marker |-> "", results |-> EmptyMap]

HTTPException(status_code, detail) ==
  [status |-> status_code, exception |-> TRUE, marker |-> detail,
   results |-> EmptyMap]

JSONResponse(status_code, marker, res) ==
  [status |-> status_code, exception |-> FALSE, marker |-> marker,
   results |-> res]

webhook_response_empty_is_error(res) ==
  IF \E k \in DOMAIN res : res[k]
    THEN JSONResponse(HTTP_200_OK, "ok", res)
    ELSE JSONResponse(HTTP_502_BAD_GATEWAY, "error", res)

\* The tail of _process_webhook: the response for a routing result.
webhook_response(res) ==
  IF DOMAIN res = {}
    THEN JSONResponse(HTTP_200_OK, "discarded", EmptyMap)
  ELSE IF ~(\E k \in DOMAIN res : res[k])
    THEN JSONResponse(HTTP_502_BAD_GATEWAY, "error", res)
  ELSE JSONResponse(HTTP_200_OK, "ok", res)

\* ------------------------------------------------------------------ state
VARIABLES
  file,         \* the routes file found at start-up
  phase,        \* "boot" before lifespan start-up, "serving", "stopped"
  router,       \* the global `router` (NoRouter for None)
  sources,      \* the keys of the global `sources` registry
  pc,           \* the request in flight: "idle", "loop", "sending", "done"
  request,      \* its source name, and whether its body is unreadable
  event,        \* the parsed alert group (source and labels)
  route,        \* find_route's route: its position from 1, 0 for None
  channels,     \* find_route's channel list
  idx,          \* the position in `channels` the loop is at
  results,      \* route_alert's results dict
  calls,        \* the calls made on channels by this request, in order
  steps,        \* which of "parse" and "match" this request has executed
  response,     \* what _process_webhook answered
  mq,           \* an input of RouteMatcher.matches (matcher, source, labels)
  mres          \* its result: "none" before the call, "true" or "false"

vars == <<file, phase, router, sources, pc, request, event, route, channels,
          idx, results, calls, steps, response, mq, mres>>

reqvars == <<pc, request, event, route, channels, idx, results, calls, steps,
             response>>

NoRequest == [source_name |-> "", malformed |-> FALSE]

NoQuery == [matcher |-> [source |-> "", labels |-> EmptyMap],
            source |-> "", labels |-> EmptyMap]

Call(op, ch, val) == [op |-> op, id |-> ch.id, val |-> val]

Init ==
  /\ file \in RoutesFiles
  /\ phase = "boot"
  /\ router = NoRouter
  /\ sources = {}
  /\ pc = "idle"
  /\ request = NoRequest
  /\ event = NoEvent
  /\ route = 0
  /\ channels = <<>>
  /\ idx = 0
  /\ results = EmptyMap
  /\ calls = <<>>
  /\ steps = {}
  /\ response = NoResponse
  /\ mq = NoQuery
  /\ mres = "none"

lifespan_startup_empty_router(f) ==
  LET cfg == load_routes_config(f)
  IN IF cfg.raised # "" THEN AlertRouter(<<>>) ELSE AlertRouter(cfg.routes)

\* The try block of lifespan: the router, or None when loading the file or
\* constructing the router raised.
lifespan_startup(f) ==
  LET cfg == load_routes_config(f)
  IN IF cfg.raised # "" THEN NoRouter ELSE AlertRouter(cfg.routes)

\* lifespan up to its yield.
Lifespan ==
  /\ phase = "boot"
  /\ phase' = "serving"
  /\ sources' = {"grafana"}
  /\ router' = lifespan_startup(file)
  /\ UNCHANGED <<file, reqvars, mq, mres>>

\* lifespan after its yield: the server stops between requests, and the
\* last request's locals are gone with it.
Shutdown ==
  /\ phase = "serving"
  /\ pc \in {"idle", "done"}
  /\ phase' = "stopped"
  /\ router' = NoRouter
  /\ sources' = {}
  /\ pc' = "idle"
  /\ request' = NoRequest
  /\ event' = NoEvent
  /\ route' = 0
  /\ channels' = <<>>
  /\ idx' = 0
  /\ results' = EmptyMap
  /\ calls' = <<>>
  /\ steps' = {}
  /\ response' = NoResponse
  /\ UNCHANGED <<file, mq, mres>>

\* The request ends with `resp` before the dispatch loop is entered.
Answer(resp, ev, rt, chs, st) ==
  /\ pc' = "done"
  /\ response' = resp
  /\ event' = ev
  /\ route' = rt
  /\ channels' = chs
  /\ steps' = st
  /\ idx' = 0

unknown_source_as_invalid_payload(source_name) ==
  HTTPException(HTTP_400_BAD_REQUEST, "Invalid payload")

\* The HTTPException for a source name with no registered parser.
unknown_source(source_name) ==
  HTTPException(HTTP_400_BAD_REQUEST, "Unknown source")

\* _process_webhook from its start to the first call of send_safe (or to its
\* return when there is none).
ProcessWebhook(source_name, payload) ==
  /\ phase = "serving"
  /\ pc \in {"idle", "done"}
  /\ request' = [source_name |-> source_name, malformed |-> payload.malformed]
  /\ results' = EmptyMap
  /\ calls' = <<>>
  /\ IF ~router.ok
       THEN Answer(HTTPException(HTTP_503_SERVICE_UNAVAILABLE,
                                 "Router not configured"),
                   NoEvent, 0, <<>>, {})
     ELSE IF source_name \notin sources
       THEN Answer(unknown_source(source_name), NoEvent, 0, <<>>, {})
     ELSE LET parsed == GrafanaSource_parse(payload)
          IN IF parsed.raised
               THEN Answer(HTTPException(HTTP_400_BAD_REQUEST, "Invalid payload"),
                           NoEvent, 0, <<>>, {"parse"})
             ELSE LET ev == parsed.event
                      fr == find_route(router, ev.source, ev.labels)
                  IN IF fr.route = 0 \/ fr.channels = <<>>
                       THEN Answer(webhook_response(EmptyMap), ev, fr.route,
                                   fr.channels, {"parse", "match"})
                       ELSE /\ pc' = "loop"
                            /\ event' = ev
                            /\ route' = fr.route
                            /\ channels' = fr.channels
                            /\ steps' = {"parse", "match"}
                            /\ idx' = 1
                            /\ response' = NoResponse
  /\ UNCHANGED <<file, phase, router, sources, mq, mres>>

\* send_safe on channel `ch` has finished with `r` and `log` is the calls so
\* far: the loop body records it and goes on, or route_alert returns and
\* _process_webhook answers.  An exception that left send_safe would leave
\* route_alert and the handler as well.
AfterSendSafe(ch, r, log) ==
  /\ calls' = Append(log, Call("send_safe_ret", ch, r))
  /\ IF r = "raise"
       THEN /\ pc' = "done"
            /\ response' = HTTPException(500, "Internal Server Error")
            /\ UNCHANGED <<results, idx>>
       ELSE LET res == RecordResult(results, ch, r = "true")
                nxt == LoopNext(channels, idx, r = "true")
            IN /\ results' = res
               /\ idx' = nxt
               /\ IF nxt > Len(channels)
                    THEN pc' = "done" /\ response' = webhook_response(res)
                    ELSE pc' = "loop" /\ response' = response

\* One iteration of the loop of route_alert up to the network call of send:
\* send_safe returns False at once for a channel that is not enabled;
\* otherwise send is called and either raises while it renders the message
\* or suspends in the POST.
CallSendSafe(render_raises) ==
  /\ pc = "loop"
  /\ LET ch == channels[idx]
         log == Append(calls, Call("send_safe", ch, ""))
     IN IF ~Channel_enabled(ch)
          THEN AfterSendSafe(ch, "false", log)
        ELSE IF render_raises
          THEN AfterSendSafe(ch, send_safe_result("raise"),
                 log \o <<Call("send", ch, ""), Call("send_ret", ch, "raise")>>)
        ELSE /\ pc' = "sending"
             /\ calls' = Append(log, Call("send", ch, ""))
             /\ UNCHANGED <<results, idx, response>>
  /\ UNCHANGED <<file, phase, router, sources, request, event, route, channels,
                 steps, mq, mres>>

\* The POST of send completes with `net`; send returns or raises, send_safe
\* returns, and the loop goes on.
SendCompletes(net) ==
  /\ pc = "sending"
  /\ LET ch == channels[idx]
         sent == Feishu_send(net)
     IN AfterSendSafe(ch, send_safe_result(sent),
                      Append(calls, Call("send_ret", ch, sent)))
  /\ UNCHANGED <<file, phase, router, sources, request, event, route, channels,
                 steps, mq, mres>>

Next ==
  \/ Lifespan
  \/ Shutdown
  \/ \E s \in SourceNames, p \in Payloads : ProcessWebhook(s, p)
  \/ \E b \in BOOLEAN : CallSendSafe(b)
  \/ \E n \in NetOutcomes : SendCompletes(n)

Spec == Init /\ [][Next]_vars

\* ------------------------------------------- RouteMatcher.matches alone
MatchSources == {"", "grafana", "kline"}

MatchLabels ==
  {EmptyMap, Env("prod"), Env("staging"), [k \in {"team"} |-> "core"],
   EnvTeam("prod", "core"), EnvTeam("staging", "core"), EnvTeam("prod", "prod")}

InitMatch ==
  /\ file = [kind |-> "missing", routes |-> <<>>]
  /\ phase = "boot"
  /\ router = NoRouter
  /\ sources = {}
  /\ pc = "idle"
  /\ request = NoRequest
  /\ event = NoEvent
  /\ route = 0
  /\ channels = <<>>
  /\ idx = 0
  /\ results = EmptyMap
  /\ calls = <<>>
  /\ steps = {}
  /\ response = NoResponse
  /\ mq \in [matcher : [source : MatchSources, labels : MatchLabels],
             source : MatchSources, labels : MatchLabels]
  /\ mres = "none"

\* One call of RouteMatcher.matches on the drawn input.
ApplyMatches ==
  /\ mres = "none"
  /\ mres' = IF RouteMatcher_matches(mq.matcher, mq.source, mq.labels)
               THEN "true" ELSE "false"
  /\ UNCHANGED <<file, phase, router, sources, reqvars, mq>>

NextMatch == ApplyMatches

SpecMatch == InitMatch /\ [][NextMatch]_vars

\* ============================================================== claims

\* A matcher accepts (source, labels): its source is empty or equal, and
\* each of its labels is among `labels` with an equal value.
Accepts(m, source, labels) ==
  /\ m.source = "" \/ m.source = source
  /\ \A k \in DOMAIN m.labels : k \in DOMAIN labels /\ labels[k] = m.labels[k]

\* The position (from 1) of the first route of `routes` accepting the event,
\* 0 when there is none.
FirstAccepting(routes, ev) ==
  LET hits == {i \in 1..Len(routes) :
                 Accepts(routes[i].match, ev.source, ev.labels)}
  IN IF hits = {} THEN 0 ELSE CHOOSE i \in hits : \A h \in hits : i <= h

\* The request in flight was parsed and matched against the routes.
Routed == phase = "serving" /\ "match" \in steps

\* The request in flight has been answered after its dispatch.
Dispatched == Routed /\ pc = "done"

IsSafeCall(c) == c.op \in {"send_safe", "send_safe_ret"}

IsSafeRet(c) == c.op = "send_safe_ret"

\* The channel of the dispatched list a call was made on.
ChannelOf(c) == CHOOSE j \in 1..Len(channels) : channels[j].id = c.id

\* C1: route_alert returns the send results of the channels configured on
\* the first route (in configuration order) whose matcher accepts the
\* event, and of no other route: the route found is that route, every call
\* is made on a channel built for one of its entries, and once the request
\* is answered each of its entries has had its send_safe call.
C1_FirstMatchingRouteOnly ==
  Routed =>
    LET m == FirstAccepting(router.routes, event)
    IN /\ route = m
       /\ \A k \in 1..Len(calls) : calls[k].id[1] = m - 1
       /\ (pc = "done" /\ m # 0) =>
            \A j \in 1..Len(router.routes[m].channels) :
              \E k \in 1..Len(calls) :
                calls[k].op = "send_safe" /\ calls[k].id = <<m - 1, j>>

\* C2: in one route_alert call send_safe is invoked exactly once on every
\* channel of the list the router holds for the matched route, in the
\* list's order, each invocation after the previous one has returned,
\* whatever the earlier ones returned: the send_safe calls and returns of
\* the request alternate, the k-th call is on the k-th channel, and when
\* route_alert has returned there are as many calls as channels.
C2_EachChannelOnceInOrder ==
  Routed =>
    LET sc == SelectSeq(calls, IsSafeCall)
    IN /\ Len(sc) <= 2 * Len(channels)
       /\ \A k \in 1..Len(sc) :
            IF k % 2 = 1
              THEN sc[k].op = "send_safe" /\ sc[k].id = channels[(k + 1) \div 2].id
              ELSE sc[k].op = "send_safe_ret" /\ sc[k].id = sc[k - 1].id
       /\ pc = "done" => Len(sc) = 2 * Len(channels)
       /\ pc \in {"loop", "sending"} => idx = (Len(sc) \div 2) + 1

\* C2 witness: a route with two channels has been dispatched, the first
\* channel's send raised, and the second was still called.
C2_Witness ==
  /\ Dispatched
  /\ Len(channels) = 2
  /\ \E k \in 1..Len(calls) :
       calls[k].op = "send_ret" /\ calls[k].val = "raise"
         /\ calls[k].id = channels[1].id
  /\ \E k \in 1..Len(calls) :
       calls[k].op = "send_safe_ret" /\ calls[k].id = channels[2].id

\* C3: when send raises on an enabled channel, send_safe returns false
\* instead of propagating: each raise of send is followed at once by the
\* return of false from send_safe on the same channel, route_alert records
\* that false under the channel's name, and the request is answered by the
\* handler's own response, never by an escaped exception.
C3_RaiseBecomesFalse ==
  Routed =>
    /\ \A k \in 1..Len(calls) :
         (calls[k].op = "send_ret" /\ calls[k].val = "raise") =>
           /\ k < Len(calls)
           /\ calls[k + 1] = [op |-> "send_safe_ret", id |-> calls[k].id,
                              val |-> "false"]
           /\ k + 1 = Len(calls) =>
                LET n == Channel_name(channels[ChannelOf(calls[k])])
                IN n \in DOMAIN results /\ results[n] = FALSE
    /\ pc = "done" => ~response.exception

\* C3 witness: a dispatch has been answered in which the send of an
\* enabled channel raised.
C3_Witness ==
  /\ Dispatched
  /\ ~response.exception
  /\ \E k \in 1..Len(calls) :
       /\ calls[k].op = "send_ret" /\ calls[k].val = "raise"
       /\ Channel_enabled(channels[ChannelOf(calls[k])])

\* C4: a channel that is not enabled always yields false in the result
\* mapping, and send is never invoked on it: in the answer to a dispatch
\* the entry under the name of each disabled channel is false, and the
\* request made no send call on it.
C4_DisabledYieldsFalse ==
  Dispatched =>
    \A j \in 1..Len(channels) :
      ~Channel_enabled(channels[j]) =>
        /\ Channel_name(channels[j]) \in DOMAIN response.results
        /\ response.results[Channel_name(channels[j])] = FALSE
        /\ \A k \in 1..Len(calls) :
             calls[k].op = "send" => calls[k].id # channels[j].id

\* C5: the mapping route_alert returns is empty exactly when no route
\* accepts the event or the accepted route has no channel entries; with at
\* least one entry it is not empty, and when every send_safe of the
\* dispatch returned false all its values are false.
C5_EmptyIffDiscarded ==
  Dispatched =>
    LET m == FirstAccepting(router.routes, event)
        none == m = 0 \/ Len(router.routes[m].channels) = 0
        rets == SelectSeq(calls, IsSafeRet)
    IN /\ (results = EmptyMap) <=> none
       /\ ~none => DOMAIN results # {}
       /\ (\A k \in 1..Len(rets) : rets[k].val = "false") =>
            \A n \in DOMAIN results : results[n] = FALSE

\* C6: RouteMatcher.matches(source, labels) is true exactly when the
\* matcher's source is empty or equal to source and each of the matcher's
\* labels is in labels with an equal value; the event's other labels do
\* not change the result; a matcher with empty source and no labels
\* matches everything.
C6_MatchesIffAccepts ==
  mres # "none" =>
    LET own == [k \in DOMAIN mq.labels \cap DOMAIN mq.matcher.labels |->
                  mq.labels[k]]
    IN /\ (mres = "true") <=> Accepts(mq.matcher, mq.source, mq.labels)
       /\ (mres = "true") <=> Accepts(mq.matcher, mq.source, own)
       /\ (mq.matcher.source = "" /\ mq.matcher.labels = EmptyMap) =>
            mres = "true"

\* C6 witness: matches returned true for a matcher with a source and a
\* label, on an event that carries a further label.
C6_Witness ==
  /\ mres = "true"
  /\ mq.matcher.source # ""
  /\ DOMAIN mq.matcher.labels # {}
  /\ DOMAIN mq.labels \ DOMAIN mq.matcher.labels # {}

\* C7: for a webhook that parsed while the router is available, an empty
\* routing result is answered 200 with the marker "discarded", a non-empty
\* result with only false values 502, a result with a true value 200, and
\* the body carries the mapping in all three cases.
C7_ResponseContract ==
  (Dispatched /\ ~response.exception) =>
    /\ (DOMAIN results = {}) =>
         response.status = HTTP_200_OK /\ response.marker = "discarded"
    /\ (DOMAIN results # {} /\ \A n \in DOMAIN results : ~results[n]) =>
         response.status = HTTP_502_BAD_GATEWAY
    /\ (\E n \in DOMAIN results : results[n]) =>
         response.status = HTTP_200_OK /\ response.marker # "discarded"
    /\ response.results = results

\* C7 witness: a dispatch whose every channel failed has been answered.
C7_Witness ==
  /\ Dispatched
  /\ DOMAIN results # {}
  /\ \A n \in DOMAIN results : ~results[n]
  /\ response.status = HTTP_502_BAD_GATEWAY

\* Loading the routes file or constructing the router fails: the file is
\* missing or malformed, or one of its channel entries has a type the
\* factory does not construct.
StartupFails ==
  \/ file.kind # "valid"
  \/ \E i \in 1..Len(file.routes) :
       \E j \in 1..Len(file.routes[i].channels) :
         file.routes[i].channels[j].type # "feishu"

\* C8: when start-up failed the router stays unavailable as long as the
\* process lives, and every webhook, whatever its source name or body, is
\* answered 503 without being parsed or matched and without a call on any
\* channel.
C8_UnavailableAfterFailedStartup ==
  StartupFails =>
    /\ ~router.ok
    /\ pc \in {"idle", "done"}
    /\ steps = {}
    /\ calls = <<>>
    /\ pc = "done" =>
         /\ response.exception
         /\ response.status = HTTP_503_SERVICE_UNAVAILABLE

\* C8 witness: a well-formed webhook of a registered source has been
\* refused after the construction of the router failed on a valid file.
C8_Witness ==
  /\ StartupFails
  /\ file.kind = "valid"
  /\ pc = "done"
  /\ request.source_name = "grafana"
  /\ ~request.malformed
  /\ response.status = HTTP_503_SERVICE_UNAVAILABLE

\* C9: with the router available, a webhook for a source with no parser
\* and a webhook whose body the parser cannot read are both answered 400,
\* with different details; neither is matched against the routes nor
\* reaches a channel, and the router and the registry stay as start-up
\* left them.
C9_ClientErrors ==
  (phase = "serving" /\ router.ok) =>
    /\ sources = {"grafana"}
    /\ router.routes = file.routes
    /\ (pc = "done" /\ request.source_name # "grafana") =>
         /\ response.exception
         /\ response.status = HTTP_400_BAD_REQUEST
         /\ response.marker = "Unknown source"
         /\ steps = {} /\ calls = <<>>
    /\ (pc = "done" /\ request.source_name = "grafana" /\ request.malformed) =>
         /\ response.exception
         /\ response.status = HTTP_400_BAD_REQUEST
         /\ response.marker # "Unknown source"
         /\ steps = {"parse"} /\ calls = <<>>

\* C9 witness: an unreadable body of a registered source has been refused
\* by a router that has routes with channels.
C9_Witness ==
  /\ phase = "serving" /\ router.ok
  /\ pc = "done"
  /\ request.source_name = "grafana" /\ request.malformed
  /\ response.status = HTTP_400_BAD_REQUEST
  /\ \E i \in 1..Len(router.routes) : router.routes[i].channels # <<>>

\* C10: results are keyed by channel name: the mapping has one key per
\* distinct name among the channels whose send_safe has returned, and the
\* value under a name is what the last of them with that name returned.
C10_LastOfNameWins ==
  Routed =>
    LET rets == SelectSeq(calls, IsSafeRet)
        nm(k) == Channel_name(channels[ChannelOf(rets[k])])
    IN /\ DOMAIN results = {nm(k) : k \in 1..Len(rets)}
       /\ \A k \in 1..Len(rets) :
            (\A l \in (k + 1)..Len(rets) : nm(l) # nm(k)) =>
              results[nm(k)] = (rets[k].val = "true")
       /\ pc = "done" =>
            DOMAIN results = {Channel_name(channels[j]) : j \in 1..Len(channels)}

\* C10 witness: two channels of one name were dispatched to, the first
\* succeeded and the second failed, and the mapping has the one entry.
C10_Witness ==
  /\ Dispatched
  /\ Len(channels) = 2
  /\ Channel_name(channels[1]) = Channel_name(channels[2])
  /\ \E k \in 1..Len(calls) :
       calls[k] = [op |-> "send_safe_ret", id |-> channels[1].id, val |-> "true"]
  /\ Cardinality(DOMAIN results) = 1
  /\ results[Channel_name(channels[2])] = FALSE

\* C11: create_channel_from_config returns a channel for every entry the
\* configuration schema accepts and raises only for an unknown type, at
\* router construction and never during route_alert: with a routes file
\* that passed validation the factory raises for none of its entries, the
\* router is constructed, and no dispatch ends in an escaped exception.
C11_FactoryCoversSchema ==
  (phase = "serving" /\ file.kind = "valid") =>
    /\ \A i \in 1..Len(file.routes) :
         \A j \in 1..Len(file.routes[i].channels) :
           file.routes[i].channels[j] \in ChannelConfig =>
             ~create_channel_from_config(file.routes[i].channels[j],
                                         <<i - 1, j>>).raised
    /\ router.ok
    /\ (Routed /\ pc = "done") => ~response.exception

\* _route_channels.get(route_key, []) for the route at position i (from 1),
\* as find_route looks it up.
ChannelsHeldFor(i) ==
  LET key == RouteKey(router.routes[i], i - 1)
  IN IF key \in DOMAIN router.route_channels
       THEN router.route_channels[key] ELSE <<>>

\* The instances constructed for the entries of the route at position i.
OwnChannels(i) ==
  [j \in 1..Len(router.routes[i].channels) |->
     FeishuChannel(router.routes[i].channels[j].webhook_url, <<i - 1, j>>)]

\* C12: after construction the channel list find_route returns for a route
\* has one instance per entry of that route's own channels list, in order,
\* built from that entry, and shares no instance with another route's list:
\* this holds of the list held for each route, and of the list the request
\* in flight was given.
C12_OwnChannelListPerRoute ==
  (phase = "serving" /\ router.ok) =>
    /\ \A i \in 1..Len(router.routes) : ChannelsHeldFor(i) = OwnChannels(i)
    /\ \A i, h \in 1..Len(router.routes) :
         i # h =>
           \A a \in 1..Len(ChannelsHeldFor(i)) :
             \A b \in 1..Len(ChannelsHeldFor(h)) :
               ChannelsHeldFor(i)[a].id # ChannelsHeldFor(h)[b].id
    /\ (Routed /\ route # 0) => channels = OwnChannels(route)

\* C13: when the send of at least one channel returned true during the
\* dispatch, the webhook is answered with a success status and never with
\* the 502 of "failed to send to all matched channels".
C13_DeliveredMeansSuccess ==
  Dispatched =>
    ((\E k \in 1..Len(calls) :
        calls[k].op = "send_ret" /\ calls[k].val = "true") =>
       /\ response.status = HTTP_200_OK
       /\ response.status # HTTP_502_BAD_GATEWAY)

====
